---- MODULE Spec2Model ----
(***************************************************************************)
(* Order aggregate of python-ddd (aggregate-root_entity_value-object.ipynb) *)
(* Product (entity), OrderLine (value object) and Order (aggregate root),  *)
(* as pydantic v1 models.  A Python object is a record of its fields; an   *)
(* operation that may raise returns [raised |-> <exception name>] or       *)
(* [raised |-> "none", value |-> <result>].                                *)
(***************************************************************************)
EXTENDS Integers, Sequences, FiniteSets, TLC

VARIABLES
    order_lines,     \* Order.order_lines: sequence of OrderLine records
    overall_price,   \* Order.overall_price
    call,            \* the last statement the client executed, with its arguments
    raised,          \* the exception that statement raised, or "none"
    heap,            \* the list objects of several Orders, by reference
    orders,          \* several Order instances: [list |-> reference, overall_price]
    threads,         \* two callers inside add/remove_order_line of the one Order
    serialized       \* whether the callers serialize their calls

\* What the statements of a single client on a single Order leave alone.
aside == <<heap, orders, threads, serialized>>

vars == <<order_lines, overall_price, call, raised, heap, orders, threads, serialized>>

(***************************************************************************)
(* Bounds of the model (Python integers and lists are unbounded).          *)
(***************************************************************************)
MaxCount == 2
MaxOverallPrice == 5
MaxLines == 3

\* Inputs of the constructors: both sides of every range boundary.
ProductNumberInputs == {-1, 0, 1, 123456, 654321, 999998, 999999, 1000000}
PriceInputs == {-1, 0, 1, 2, 100}
CountInputs == {-1, 0, 1, 2}

\* Inputs of the statements applied to the order.
ProductNumbers == {0, 123456, 999999}
Prices == {1, 2}
Counts == {0, 1, 2}
RemovedNumbers == ProductNumbers \cup {654321}

\* Inputs of the statements that assign to attributes of objects in the order.
AssignProductNumbers == {123456, 999999}
AssignCounts == {1, 2}
PriceAssignments == {0, 1, 2}

\* Inputs of the statements applied to several Orders.
OrderNames == {"first", "second"}
OrdersProductNumbers == {123456, 654321}
OrdersPrices == {1}
OrdersCounts == {1}

\* Inputs of the two concurrent callers.
Callers == {1, 2}
CallersProductNumbers == {123456, 654321}
CallersCounts == {1}

Raise(exception) == [raised |-> exception]
Return(value) == [raised |-> "none", value |-> value]

(***************************************************************************)
(* Base classes: attribute assignment on a pydantic model.  ValueObject    *)
(* sets Config.frozen, so assignment raises TypeError; Entity sets no      *)
(* Config, so assignment stores the value as given (no validator runs,     *)
(* validate_assignment being off by default).                              *)
(***************************************************************************)
ValueObject_frozen_off == FALSE

ValueObject_frozen == TRUE

ValueObject_setattr(self, name, value) ==
    IF ValueObject_frozen
    THEN Raise("TypeError")
    ELSE Return([self EXCEPT ![name] = value])

Entity_setattr(self, name, value) ==
    Return([self EXCEPT ![name] = value])

(***************************************************************************)
(* Product: validators run at construction.                                *)
(***************************************************************************)
product_number_min == 0
product_number_max == 999999
price_min == 1

validate_product_number_exclusive(value) ==
    IF value <= product_number_min \/ value >= product_number_max
    THEN Raise("ValueError")
    ELSE Return(value)

validate_product_number(value) ==
    IF value < product_number_min \/ value > product_number_max
    THEN Raise("ValueError")
    ELSE Return(value)

validate_price(value) ==
    IF value < price_min
    THEN Raise("ValueError")
    ELSE Return(value)

\* Product(product_number=..., price=...): every field is validated and the
\* errors are collected into one ValidationError.
Product(product_number, price) ==
    LET n == validate_product_number(product_number)
        p == validate_price(price)
    IN  IF n.raised # "none" \/ p.raised # "none"
        THEN Raise("ValidationError")
        ELSE Return([product_number |-> n.value, price |-> p.value])

(***************************************************************************)
(* OrderLine                                                               *)
(***************************************************************************)
validate_product_count_nonnegative(value) ==
    IF value < 0
    THEN Raise("ValueError")
    ELSE Return(value)

validate_product_count(value) ==
    IF value <= 0
    THEN Raise("ValueError")
    ELSE Return(value)

\* OrderLine(product=<a Product instance>, product_count=...)
OrderLine(product, product_count) ==
    LET c == validate_product_count(product_count)
    IN  IF c.raised # "none"
        THEN Raise("ValidationError")
        ELSE Return([product |-> product, product_count |-> c.value])

(***************************************************************************)
(* Python list operations used by Order.                                   *)
(***************************************************************************)
ListRemove_nothing(list, x) == list

ListRemove_head(list, x) == Tail(list)

\* list.remove(x): drops the first item equal to x.
ListRemove(list, x) ==
    IF \E i \in 1..Len(list) : list[i] = x
    THEN LET k == CHOOSE i \in 1..Len(list) :
                      /\ list[i] = x
                      /\ \A j \in 1..(i - 1) : list[j] # x
         IN  [i \in 1..(Len(list) - 1) |-> IF i < k THEN list[i] ELSE list[i + 1]]
    ELSE list

FirstIndex_or_last(list, product_number) ==
    IF \E i \in 1..Len(list) : list[i].product.product_number = product_number
    THEN CHOOSE i \in 1..Len(list) :
            /\ list[i].product.product_number = product_number
            /\ \A j \in 1..(i - 1) : list[j].product.product_number # product_number
    ELSE Len(list)

\* The index at which the for loop of add/remove_order_line first finds
\* product_number, 0 when the loop runs to its end.
FirstIndex(list, product_number) ==
    IF \E i \in 1..Len(list) : list[i].product.product_number = product_number
    THEN CHOOSE i \in 1..Len(list) :
            /\ list[i].product.product_number = product_number
            /\ \A j \in 1..(i - 1) : list[j].product.product_number # product_number
    ELSE 0

(***************************************************************************)
(* Order.add_order_line / Order.remove_order_line on the order             *)
(* self = [order_lines, overall_price]; the result is the order after the  *)
(* call, the path taken and the exception raised.                          *)
(***************************************************************************)
MergedOrderLine_added_count(existing_order_line, order_line) ==
    LET product == Product(existing_order_line.product.product_number,
                           existing_order_line.product.price)
    IN  IF product.raised = "none"
        THEN OrderLine(product.value, order_line.product_count)
        ELSE product

MergedOrderLine_added_product(existing_order_line, order_line) ==
    LET product == Product(order_line.product.product_number,
                           order_line.product.price)
    IN  IF product.raised = "none"
        THEN OrderLine(product.value,
                       existing_order_line.product_count + order_line.product_count)
        ELSE product

\* The OrderLine the merge path constructs: a new Product with the existing
\* line's number and price, and the two counts added.
MergedOrderLine(existing_order_line, order_line) ==
    LET product == Product(existing_order_line.product.product_number,
                           existing_order_line.product.price)
    IN  IF product.raised = "none"
        THEN OrderLine(product.value,
                       existing_order_line.product_count + order_line.product_count)
        ELSE product

add_order_line_existing_price(self, order_line) ==
    LET index == FirstIndex(self.order_lines, order_line.product.product_number)
    IN  IF index # 0
        THEN LET existing_order_line == self.order_lines[index]
                 merged == MergedOrderLine(existing_order_line, order_line)
             IN  IF merged.raised # "none"
                 THEN [order_lines |-> self.order_lines,
                       overall_price |-> self.overall_price,
                       path |-> "merge", raised |-> merged.raised]
                 ELSE [order_lines |->
                           ListRemove(Append(self.order_lines, merged.value),
                                      existing_order_line),
                       overall_price |-> self.overall_price
                           + order_line.product_count
                               * existing_order_line.product.price,
                       path |-> "merge", raised |-> "none"]
        ELSE [order_lines |-> Append(self.order_lines, order_line),
              overall_price |-> self.overall_price
                  + order_line.product_count * order_line.product.price,
              path |-> "append", raised |-> "none"]

add_order_line(self, order_line) ==
    LET index == FirstIndex(self.order_lines, order_line.product.product_number)
    IN  IF index # 0
        THEN LET existing_order_line == self.order_lines[index]
                 merged == MergedOrderLine(existing_order_line, order_line)
             IN  IF merged.raised # "none"
                 THEN [order_lines |-> self.order_lines,
                       overall_price |-> self.overall_price,
                       path |-> "merge", raised |-> merged.raised]
                 ELSE [order_lines |->
                           ListRemove(Append(self.order_lines, merged.value),
                                      existing_order_line),
                       overall_price |-> self.overall_price
                           + order_line.product_count * order_line.product.price,
                       path |-> "merge", raised |-> "none"]
        ELSE [order_lines |-> Append(self.order_lines, order_line),
              overall_price |-> self.overall_price
                  + order_line.product_count * order_line.product.price,
              path |-> "append", raised |-> "none"]

remove_order_line_keeps_price(self, product_number) ==
    LET index == FirstIndex(self.order_lines, product_number)
    IN  IF index # 0
        THEN [order_lines |-> ListRemove(self.order_lines, self.order_lines[index]),
              overall_price |-> self.overall_price,
              path |-> "removed", raised |-> "none"]
        ELSE [order_lines |-> self.order_lines,
              overall_price |-> self.overall_price,
              path |-> "absent", raised |-> "none"]

remove_order_line(self, product_number) ==
    LET index == FirstIndex(self.order_lines, product_number)
    IN  IF index # 0
        THEN LET existing_order_line == self.order_lines[index]
             IN  [order_lines |-> ListRemove(self.order_lines, existing_order_line),
                  overall_price |-> self.overall_price
                      - existing_order_line.product_count
                          * existing_order_line.product.price,
                  path |-> "removed", raised |-> "none"]
        ELSE [order_lines |-> self.order_lines,
              overall_price |-> self.overall_price,
              path |-> "absent", raised |-> "none"]

Abs(x) == IF x < 0 THEN -x ELSE x

\* The states the bounds keep.
WithinBounds(lines, price) ==
    /\ Len(lines) <= MaxLines
    /\ \A i \in 1..Len(lines) : lines[i].product_count <= MaxCount
    /\ Abs(price) <= MaxOverallPrice

(***************************************************************************)
(* Statements of the client.                                               *)
(***************************************************************************)
\* order = Order()
Init ==
    /\ order_lines = << >>
    /\ overall_price = 0
    /\ call = [op |-> "Order"]
    /\ raised = "none"
    /\ heap = ("default" :> << >>)
    /\ orders = << >>
    /\ threads = << >>
    /\ serialized = TRUE

\* Product(product_number=n, price=p)
NewProduct(product_number, price) ==
    LET r == Product(product_number, price)
    IN  /\ call' = [op |-> "Product", product_number |-> product_number,
                    price |-> price,
                    value |-> IF r.raised = "none" THEN <<r.value>> ELSE << >>]
        /\ raised' = r.raised
        /\ UNCHANGED <<order_lines, overall_price, aside>>

\* OrderLine(product=Product(product_number=n, price=p), product_count=c)
NewOrderLine(product_number, price, product_count) ==
    LET p == Product(product_number, price)
        r == IF p.raised = "none" THEN OrderLine(p.value, product_count) ELSE p
    IN  /\ call' = [op |-> "OrderLine", product_number |-> product_number,
                    price |-> price, product_count |-> product_count,
                    value |-> IF r.raised = "none" THEN <<r.value>> ELSE << >>]
        /\ raised' = r.raised
        /\ UNCHANGED <<order_lines, overall_price, aside>>

\* order.add_order_line(line), line being the OrderLine just constructed
AddOrderLine ==
    /\ call.op = "OrderLine"
    /\ raised = "none"
    /\ LET line == call.value[1]
           r == add_order_line([order_lines |-> order_lines,
                                overall_price |-> overall_price], line)
       IN  /\ WithinBounds(r.order_lines, r.overall_price)
           /\ order_lines' = r.order_lines
           /\ overall_price' = r.overall_price
           /\ call' = [op |-> "add_order_line", order_line |-> line, path |-> r.path]
           /\ raised' = r.raised
           /\ UNCHANGED aside

\* order.remove_order_line(n)
RemoveOrderLine(product_number) ==
    LET r == remove_order_line([order_lines |-> order_lines,
                                overall_price |-> overall_price], product_number)
    IN  /\ WithinBounds(r.order_lines, r.overall_price)
        /\ order_lines' = r.order_lines
        /\ overall_price' = r.overall_price
        /\ call' = [op |-> "remove_order_line", product_number |-> product_number,
                    path |-> r.path]
        /\ raised' = r.raised
        /\ UNCHANGED aside

Next ==
    \/ \E n \in ProductNumbers, p \in Prices, c \in Counts : NewOrderLine(n, p, c)
    \/ AddOrderLine
    \/ \E n \in RemovedNumbers : RemoveOrderLine(n)

Spec == Init /\ [][Next]_vars

\* order.order_lines[i].product.<name> = value (equally through any other
\* reference to that Product)
SetProductAttr(i, name, value) ==
    LET r == Entity_setattr(order_lines[i].product, name, value)
    IN  /\ order_lines' = IF r.raised = "none"
                          THEN [order_lines EXCEPT ![i].product = r.value]
                          ELSE order_lines
        /\ call' = [op |-> "Product.__setattr__", index |-> i, name |-> name,
                    value |-> value]
        /\ raised' = r.raised
        /\ UNCHANGED <<overall_price, aside>>

\* order.order_lines[i].<name> = value (equally through any other reference
\* to that OrderLine)
SetOrderLineAttr(i, name, value) ==
    LET r == ValueObject_setattr(order_lines[i], name, value)
    IN  /\ order_lines' = IF r.raised = "none"
                          THEN [order_lines EXCEPT ![i] = r.value]
                          ELSE order_lines
        /\ call' = [op |-> "OrderLine.__setattr__", index |-> i, name |-> name,
                    value |-> value]
        /\ raised' = r.raised
        /\ UNCHANGED <<overall_price, aside>>

\* The order under add, remove and reassignment of Product.price to prices
\* the validator of Product accepts (the price of a product changing over
\* time).
NextDrift ==
    \/ \E n \in AssignProductNumbers, p \in Prices, c \in AssignCounts :
           NewOrderLine(n, p, c)
    \/ AddOrderLine
    \/ \E n \in AssignProductNumbers : RemoveOrderLine(n)
    \/ \E i \in 1..Len(order_lines), p \in Prices :
           SetProductAttr(i, "price", p)

SpecDrift == Init /\ [][NextDrift]_vars

\* The order under add, remove and assignments of any integer to
\* Product.price and to the fields of OrderLine.
NextAssign ==
    \/ \E n \in AssignProductNumbers, p \in Prices, c \in AssignCounts :
           NewOrderLine(n, p, c)
    \/ AddOrderLine
    \/ \E n \in AssignProductNumbers : RemoveOrderLine(n)
    \/ \E i \in 1..Len(order_lines), p \in PriceAssignments :
           SetProductAttr(i, "price", p)
    \/ \E i \in 1..Len(order_lines), c \in AssignCounts :
           SetOrderLineAttr(i, "product_count", c)
    \/ \E i \in 1..Len(order_lines), n \in AssignProductNumbers, p \in Prices :
           SetOrderLineAttr(i, "product", [product_number |-> n, price |-> p])

SpecAssign == Init /\ [][NextAssign]_vars

\* The order under add, remove and assignments to Product.product_number.
NextIdentity ==
    \/ \E n \in AssignProductNumbers, p \in Prices, c \in AssignCounts :
           NewOrderLine(n, p, c)
    \/ AddOrderLine
    \/ \E n \in AssignProductNumbers : RemoveOrderLine(n)
    \/ \E i \in 1..Len(order_lines), n \in AssignProductNumbers :
           SetProductAttr(i, "product_number", n)

SpecIdentity == Init /\ [][NextIdentity]_vars

(***************************************************************************)
(* Several Orders.  The list a field holds is an object on the heap; the   *)
(* default of order_lines, the [] of the class body, is the object         *)
(* "default".  pydantic gives every new instance a copy of a field's       *)
(* default, which Order_new stores under the reference of its own.         *)
(***************************************************************************)
Order_new_shared(h, ref) ==
    [heap |-> h, value |-> [list |-> "default", overall_price |-> 0]]

Order_new(h, ref) ==
    [heap |-> (ref :> h["default"]) @@ h,
     value |-> [list |-> ref, overall_price |-> 0]]

\* The Order named k as add/remove_order_line see it.
OrderValue(h, os, k) ==
    [order_lines |-> h[os[k].list], overall_price |-> os[k].overall_price]

\* <k> = Order()
NewOrder(k) ==
    LET r == Order_new(heap, k)
    IN  /\ heap' = r.heap
        /\ orders' = (k :> r.value) @@ orders
        /\ call' = [op |-> "Order", name |-> k]
        /\ raised' = "none"
        /\ UNCHANGED <<order_lines, overall_price, threads, serialized>>

\* <k>.add_order_line(line), line being the OrderLine just constructed
AddOrderLineTo(k) ==
    /\ k \in DOMAIN orders
    /\ call.op = "OrderLine"
    /\ raised = "none"
    /\ LET line == call.value[1]
           r == add_order_line(OrderValue(heap, orders, k), line)
       IN  /\ WithinBounds(r.order_lines, r.overall_price)
           /\ heap' = [heap EXCEPT ![orders[k].list] = r.order_lines]
           /\ orders' = [orders EXCEPT ![k].overall_price = r.overall_price]
           /\ call' = [op |-> "add_order_line", name |-> k, order_line |-> line,
                       path |-> r.path]
           /\ raised' = r.raised
           /\ UNCHANGED <<order_lines, overall_price, threads, serialized>>

\* <k>.remove_order_line(n)
RemoveOrderLineFrom(k, product_number) ==
    /\ k \in DOMAIN orders
    /\ LET r == remove_order_line(OrderValue(heap, orders, k), product_number)
       IN  /\ WithinBounds(r.order_lines, r.overall_price)
           /\ heap' = [heap EXCEPT ![orders[k].list] = r.order_lines]
           /\ orders' = [orders EXCEPT ![k].overall_price = r.overall_price]
           /\ call' = [op |-> "remove_order_line", name |-> k,
                       product_number |-> product_number, path |-> r.path]
           /\ raised' = r.raised
           /\ UNCHANGED <<order_lines, overall_price, threads, serialized>>

NextOrders ==
    \/ \E k \in OrderNames : NewOrder(k)
    \/ \E n \in OrdersProductNumbers, p \in OrdersPrices, c \in OrdersCounts :
           NewOrderLine(n, p, c)
    \/ \E k \in OrderNames : AddOrderLineTo(k)
    \/ \E k \in OrderNames, n \in OrdersProductNumbers : RemoveOrderLineFrom(k, n)

SpecOrders == Init /\ [][NextOrders]_vars

(***************************************************************************)
(* Two callers inside add_order_line / remove_order_line of the one Order, *)
(* one statement of the method per step.  threads[t] holds the call of     *)
(* caller t, its position pc (the statement it executes next) and its      *)
(* locals: the position of the iterator of the for loop and                *)
(* existing_order_line.                                                    *)
(***************************************************************************)
\* list.remove(x) raises ValueError when no item equals x.
ListRemoveOrRaise(list, x) ==
    IF \E i \in 1..Len(list) : list[i] = x
    THEN Return(ListRemove(list, x))
    ELSE Raise("ValueError")

CallersLines ==
    {[product |-> [product_number |-> n, price |-> p], product_count |-> c] :
        n \in CallersProductNumbers, p \in Prices, c \in CallersCounts}

CallersCalls ==
    {[op |-> "add_order_line", arg |-> <<l>>] : l \in CallersLines}
        \cup {[op |-> "remove_order_line", arg |-> <<n>>] : n \in CallersProductNumbers}

\* The Order is empty or holds one line, as after Order() and one add.
InitThreads ==
    /\ \E l \in CallersLines :
           \/ order_lines = << >> /\ overall_price = 0
           \/ /\ order_lines = add_order_line([order_lines |-> << >>,
                                                overall_price |-> 0], l).order_lines
              /\ overall_price = add_order_line([order_lines |-> << >>,
                                                  overall_price |-> 0], l).overall_price
    /\ serialized \in BOOLEAN
    /\ threads \in [Callers ->
           {[op |-> k.op, arg |-> k.arg, pc |-> "call", index |-> 1,
             existing_order_line |-> << >>] : k \in CallersCalls}]
    /\ call = [op |-> "Order"]
    /\ raised = "none"
    /\ heap = ("default" :> << >>)
    /\ orders = << >>

InProgress(t) == threads[t].pc \notin {"call", "returned", "raised"}

\* The caller enters the method; a serializing caller waits for the other
\* call to end.  enumerate(self.order_lines) starts at the first item.
Enter(t) ==
    /\ threads[t].pc = "call"
    /\ serialized => \A u \in Callers \ {t} : ~InProgress(u)
    /\ threads' = [threads EXCEPT ![t].pc = "for", ![t].index = 1]
    /\ UNCHANGED <<order_lines, overall_price, call, raised, heap, orders, serialized>>

\* for index, existing_order_line in enumerate(self.order_lines):
\* the next item of the list as it is now, or the end of the loop.
For(t) ==
    /\ threads[t].pc = "for"
    /\ threads' =
           IF threads[t].index <= Len(order_lines)
           THEN [threads EXCEPT
                    ![t].existing_order_line = <<order_lines[threads[t].index]>>,
                    ![t].index = @ + 1,
                    ![t].pc = "if"]
           ELSE [threads EXCEPT
                    ![t].pc = IF threads[t].op = "add_order_line"
                              THEN "append" ELSE "return"]
    /\ UNCHANGED <<order_lines, overall_price, call, raised, heap, orders, serialized>>

\* if <product_number> == existing_order_line.product.product_number:
If(t) ==
    /\ threads[t].pc = "if"
    /\ LET number == IF threads[t].op = "add_order_line"
                     THEN threads[t].arg[1].product.product_number
                     ELSE threads[t].arg[1]
           found == number
                      = threads[t].existing_order_line[1].product.product_number
       IN  threads' = [threads EXCEPT
               ![t].pc = IF ~found THEN "for"
                         ELSE IF threads[t].op = "add_order_line"
                              THEN "append_merged" ELSE "remove"]
    /\ UNCHANGED <<order_lines, overall_price, call, raised, heap, orders, serialized>>

\* self.order_lines.append(OrderLine(product=Product(...), product_count=...))
AppendMerged(t) ==
    /\ threads[t].pc = "append_merged"
    /\ LET merged == MergedOrderLine(threads[t].existing_order_line[1],
                                     threads[t].arg[1])
       IN  IF merged.raised = "none"
           THEN /\ order_lines' = Append(order_lines, merged.value)
                /\ threads' = [threads EXCEPT ![t].pc = "remove"]
           ELSE /\ order_lines' = order_lines
                /\ threads' = [threads EXCEPT ![t].pc = "raised"]
    /\ UNCHANGED <<overall_price, call, raised, heap, orders, serialized>>

\* self.order_lines.remove(existing_order_line), of either method
Remove(t) ==
    /\ threads[t].pc = "remove"
    /\ LET r == ListRemoveOrRaise(order_lines, threads[t].existing_order_line[1])
       IN  IF r.raised = "none"
           THEN /\ order_lines' = r.value
                /\ threads' = [threads EXCEPT
                       ![t].pc = IF threads[t].op = "add_order_line"
                                 THEN "increase" ELSE "decrease"]
           ELSE /\ order_lines' = order_lines
                /\ threads' = [threads EXCEPT ![t].pc = "raised"]
    /\ UNCHANGED <<overall_price, call, raised, heap, orders, serialized>>

\* self.order_lines.append(order_line)
AppendLine(t) ==
    /\ threads[t].pc = "append"
    /\ order_lines' = Append(order_lines, threads[t].arg[1])
    /\ threads' = [threads EXCEPT ![t].pc = "increase"]
    /\ UNCHANGED <<overall_price, call, raised, heap, orders, serialized>>

\* self.overall_price += order_line.product_count * order_line.product.price
\* (then return, or the end of the method)
Increase(t) ==
    /\ threads[t].pc = "increase"
    /\ overall_price' = overall_price
           + threads[t].arg[1].product_count * threads[t].arg[1].product.price
    /\ threads' = [threads EXCEPT ![t].pc = "return"]
    /\ UNCHANGED <<order_lines, call, raised, heap, orders, serialized>>

\* self.overall_price -= existing_order_line.product_count
\*                           * existing_order_line.product.price
Decrease(t) ==
    /\ threads[t].pc = "decrease"
    /\ overall_price' = overall_price
           - threads[t].existing_order_line[1].product_count
               * threads[t].existing_order_line[1].product.price
    /\ threads' = [threads EXCEPT ![t].pc = "return"]
    /\ UNCHANGED <<order_lines, call, raised, heap, orders, serialized>>

\* return
ReturnFrom(t) ==
    /\ threads[t].pc = "return"
    /\ threads' = [threads EXCEPT ![t].pc = "returned"]
    /\ UNCHANGED <<order_lines, overall_price, call, raised, heap, orders, serialized>>

NextThreads ==
    \/ \E t \in Callers : Enter(t)
    \/ \E t \in Callers : For(t)
    \/ \E t \in Callers : If(t)
    \/ \E t \in Callers : AppendMerged(t)
    \/ \E t \in Callers : Remove(t)
    \/ \E t \in Callers : AppendLine(t)
    \/ \E t \in Callers : Increase(t)
    \/ \E t \in Callers : Decrease(t)
    \/ \E t \in Callers : ReturnFrom(t)

SpecThreads == InitThreads /\ [][NextThreads]_vars

\* The constructors alone, on inputs around every boundary.
NextConstruct ==
    \/ \E n \in ProductNumberInputs, p \in PriceInputs : NewProduct(n, p)
    \/ \E n \in ProductNumberInputs, p \in PriceInputs, c \in CountInputs :
           NewOrderLine(n, p, c)

SpecConstruct == Init /\ [][NextConstruct]_vars

(***************************************************************************)
(* Properties.                                                             *)
(***************************************************************************)
RECURSIVE SumOfLines(_)
SumOfLines(lines) ==
    IF lines = << >>
    THEN 0
    ELSE Head(lines).product_count * Head(lines).product.price
             + SumOfLines(Tail(lines))

\* The indices of the lines of a product.
LinesOf(lines, product_number) ==
    {i \in 1..Len(lines) : lines[i].product.product_number = product_number}

\* C1: after any sequence of add_order_line and remove_order_line calls,
\* overall_price equals the sum of product_count * product.price over
\* order_lines.
SumInvariant == overall_price = SumOfLines(order_lines)

\* C2: no two entries of order_lines have products with the same
\* product_number.
UniqueProductNumbers ==
    \A i, j \in 1..Len(order_lines) :
        i # j => order_lines[i].product.product_number
                     # order_lines[j].product.product_number

UniqueAfterMerge ==
    /\ call.op = "add_order_line"
    /\ call.path = "merge"
    /\ Len(order_lines) = 3

\* C3: add_order_line with a line whose product_number matches an existing
\* line of count c leaves exactly one entry for that product_number, of
\* count c plus the added count, and the same number of entries.
MergeRule ==
    [][(/\ call'.op = "add_order_line"
        /\ LinesOf(order_lines, call'.order_line.product.product_number) # {})
       => LET added == call'.order_line
              number == added.product.product_number
              c == order_lines[FirstIndex(order_lines, number)].product_count
          IN  /\ Cardinality(LinesOf(order_lines', number)) = 1
              /\ \A i \in LinesOf(order_lines', number) :
                     order_lines'[i].product_count = c + added.product_count
              /\ Len(order_lines') = Len(order_lines)]_vars

MergedTwoLines ==
    /\ call.op = "add_order_line"
    /\ call.path = "merge"
    /\ call.order_line.product_count = 1
    /\ Len(order_lines) = 2
    /\ \E i \in 1..Len(order_lines) :
           /\ order_lines[i].product.product_number
                  = call.order_line.product.product_number
           /\ order_lines[i].product_count = 2

\* C4: remove_order_line(n) with a line of product_number n present leaves
\* no line of product_number n and decreases overall_price by exactly that
\* line's product_count * product.price.
RemovalOfPresentLine ==
    [][(/\ call'.op = "remove_order_line"
        /\ LinesOf(order_lines, call'.product_number) # {})
       => LET number == call'.product_number
              removed == order_lines[FirstIndex(order_lines, number)]
          IN  /\ LinesOf(order_lines', number) = {}
              /\ overall_price' = overall_price
                     - removed.product_count * removed.product.price]_vars

RemovedPresentLine ==
    /\ call.op = "remove_order_line"
    /\ call.path = "removed"
    /\ Len(order_lines) = 2
    /\ overall_price > 0

\* C5: remove_order_line(n) with no line of product_number n leaves
\* order_lines and overall_price unchanged and raises nothing, however often
\* it is called.
AbsentRemovalIsNoOp ==
    [][(/\ call'.op = "remove_order_line"
        /\ LinesOf(order_lines, call'.product_number) = {})
       => /\ order_lines' = order_lines
          /\ overall_price' = overall_price
          /\ raised' = "none"]_vars

RemovedAbsentLine ==
    /\ call.op = "remove_order_line"
    /\ call.path = "absent"
    /\ raised = "none"
    /\ Len(order_lines) = 2
    /\ overall_price > 0

\* C6: in every reachable state, also after the price of a Product held by
\* a line of order_lines is changed, overall_price equals the sum of
\* product_count * product.price over order_lines.
DerivedTotalUnderPriceDrift == SumOfLines(order_lines) = overall_price

\* C7: assigning to product_count or product of an OrderLine fails with
\* the immutability error (pydantic's TypeError) and leaves the line as it
\* was.
OrderLineImmutability ==
    [][(call'.op = "OrderLine.__setattr__")
       => /\ raised' = "TypeError"
          /\ order_lines' = order_lines
          /\ order_lines'[call'.index].product_count
                 = order_lines[call'.index].product_count
          /\ order_lines'[call'.index].product
                 = order_lines[call'.index].product]_vars

RefusedCountAssignment ==
    /\ call.op = "OrderLine.__setattr__"
    /\ call.name = "product_count"
    /\ raised = "TypeError"
    /\ call.value # order_lines[call.index].product_count

\* C8: Product(product_number, price) succeeds if and only if
\* 0 <= product_number <= 999999 and price >= 1; otherwise it fails with a
\* validation error and yields no Product.
ProductConstructionValidation ==
    (call.op = "Product")
    => /\ (raised = "none")
              <=> (/\ 0 <= call.product_number
                   /\ call.product_number <= 999999
                   /\ call.price >= 1)
       /\ raised \in {"none", "ValidationError"}
       /\ (raised = "ValidationError") => (call.value = << >>)
       /\ (raised = "none")
              => (call.value = <<[product_number |-> call.product_number,
                                  price |-> call.price]>>)

ProductAtBoundaries ==
    /\ call.op = "Product"
    /\ call.product_number = 999999
    /\ call.price = 1
    /\ raised = "none"

\* C9: OrderLine construction fails with a validation error for every
\* product_count <= 0 and succeeds for every product_count >= 1 with a
\* valid Product; every line of order_lines, merged lines included, has
\* product_count >= 1.
OrderLineCountValidation ==
    /\ (call.op = "OrderLine" /\ call.product_count <= 0)
           => (raised = "ValidationError" /\ call.value = << >>)
    /\ (call.op = "OrderLine" /\ call.product_count >= 1)
           => /\ raised = "none"
              /\ call.value = <<[product |-> [product_number |-> call.product_number,
                                              price |-> call.price],
                                 product_count |-> call.product_count]>>
    /\ \A i \in 1..Len(order_lines) : order_lines[i].product_count >= 1

RefusedZeroCount ==
    /\ call.op = "OrderLine"
    /\ call.product_count = 0
    /\ raised = "ValidationError"
    /\ \E i \in 1..Len(order_lines) : order_lines[i].product_count = 2

\* C10: every Product satisfies 0 <= product_number <= 999999 and
\* price >= 1 in every reachable state, also after a reassignment of price.
ProductRangeInvariant ==
    \A i \in 1..Len(order_lines) :
        /\ 0 <= order_lines[i].product.product_number
        /\ order_lines[i].product.product_number <= 999999
        /\ order_lines[i].product.price >= 1

\* C11: the product_number of a constructed Product is never reassigned:
\* an assignment to it leaves the product_number of the product of the
\* line in order_lines as it was.
IdentityIsReadOnly ==
    [][(call'.op = "Product.__setattr__" /\ call'.name = "product_number")
       => /\ Len(order_lines') = Len(order_lines)
          /\ order_lines'[call'.index].product.product_number
                 = order_lines[call'.index].product.product_number]_vars

\* C12: a newly constructed Order has empty order_lines and overall_price 0
\* whatever was done to other Orders before, and constructing an Order or
\* calling add_order_line / remove_order_line on one Order changes the
\* order_lines and overall_price of no other Order.
FreshStatePerAggregate ==
    [][(call'.op \in {"Order", "add_order_line", "remove_order_line"})
       => /\ (call'.op = "Order")
                 => (OrderValue(heap', orders', call'.name)
                        = [order_lines |-> << >>, overall_price |-> 0])
          /\ \A j \in DOMAIN orders \ {call'.name} :
                 OrderValue(heap', orders', j) = OrderValue(heap, orders, j)]_vars

FreshOrderBesideUsedOrder ==
    /\ call = [op |-> "Order", name |-> "second"]
    /\ "first" \in DOMAIN orders
    /\ Len(OrderValue(heap, orders, "first").order_lines) = 2
    /\ OrderValue(heap, orders, "second").order_lines = << >>

\* C13: add_order_line with a validated OrderLine and remove_order_line
\* with any integer raise nothing in any reachable state, also after the
\* price of a product held by a line was changed.
MutationMethodsNeverFail ==
    (call.op \in {"add_order_line", "remove_order_line"}) => (raised = "none")

\* C14: every add_order_line(line), merging or appending, increases
\* overall_price by exactly line.product_count * line.product.price, the
\* price being that of the added line's product.
IncrementRule ==
    [][(call'.op = "add_order_line")
       => (overall_price' = overall_price
               + call'.order_line.product_count
                   * call'.order_line.product.price)]_vars

MergedAtAnotherPrice ==
    /\ call.op = "add_order_line"
    /\ call.path = "merge"
    /\ \E i \in 1..Len(order_lines) :
           /\ order_lines[i].product.product_number
                  = call.order_line.product.product_number
           /\ order_lines[i].product.price # call.order_line.product.price

\* C15: on the merge path the replacement line's product has the
\* product_number and price of the existing line's product at the time of
\* the call, not those of the added line's product.
MergedLineProduct ==
    [][(/\ call'.op = "add_order_line"
        /\ LinesOf(order_lines, call'.order_line.product.product_number) # {})
       => LET number == call'.order_line.product.product_number
              existing == order_lines[FirstIndex(order_lines, number)]
          IN  /\ LinesOf(order_lines', number) # {}
              /\ \A i \in LinesOf(order_lines', number) :
                     /\ order_lines'[i].product.product_number
                            = existing.product.product_number
                     /\ order_lines'[i].product.price = existing.product.price]_vars

MergedKeepsExistingPrice ==
    /\ call.op = "add_order_line"
    /\ call.path = "merge"
    /\ call.order_line.product.price = 2
    /\ \E i \in 1..Len(order_lines) :
           /\ order_lines[i].product.product_number
                  = call.order_line.product.product_number
           /\ order_lines[i].product.price = 1
           /\ order_lines[i].product_count = 2

\* The lines of the other products, in their order.
Others(lines, product_number) ==
    SelectSeq(lines, LAMBDA l : l.product.product_number # product_number)

\* C16: add_order_line and remove_order_line leave the lines of every
\* other product_number unchanged in content and relative order; the append
\* path places the line last, unmodified; the merge path removes only the
\* old entry of that product and places the merged entry last.
FrameOfOtherLines ==
    [][/\ (call'.op = "add_order_line")
           => LET line == call'.order_line
                  number == line.product.product_number
                  last == Len(order_lines')
              IN  /\ Others(order_lines', number) = Others(order_lines, number)
                  /\ (LinesOf(order_lines, number) = {})
                         => (order_lines' = Append(order_lines, line))
                  /\ (LinesOf(order_lines, number) # {})
                         => /\ last = Len(order_lines)
                            /\ order_lines'[last].product.product_number = number
                            /\ SubSeq(order_lines', 1, last - 1)
                                   = Others(order_lines, number)
       /\ (call'.op = "remove_order_line")
           => /\ Others(order_lines', call'.product_number)
                     = Others(order_lines, call'.product_number)
              /\ Len(order_lines') >= Len(order_lines) - 1]_vars

MergedFirstOfThree ==
    /\ call.op = "add_order_line"
    /\ call.path = "merge"
    /\ Len(order_lines) = 3
    /\ order_lines[3].product.product_number = 0
    /\ order_lines[1].product.product_number = 999999
    /\ order_lines[2].product.product_number = 123456

\* C18: overall_price >= 0 in every state reachable by add_order_line and
\* remove_order_line, lines of one product_number at different prices
\* included.
NonNegativeTotal == overall_price >= 0

\* C19: if order_lines is empty then overall_price = 0.
EmptyOrderCostsNothing == (order_lines = << >>) => (overall_price = 0)

\* C20: in any reachable state, add_order_line of a validated line whose
\* product_number is in no line, followed at once by remove_order_line of
\* that product_number, restores order_lines and overall_price exactly.
AddRemoveRoundTrip ==
    \A n \in ProductNumbers, p \in Prices, c \in Counts :
        LET self == [order_lines |-> order_lines, overall_price |-> overall_price]
            product == Product(n, p)
            line == OrderLine(product.value, c)
        IN  (/\ LinesOf(order_lines, n) = {}
             /\ product.raised = "none"
             /\ line.raised = "none")
            => LET added == add_order_line(self, line.value)
                   removed == remove_order_line(added, n)
               IN  /\ added.raised = "none"
                   /\ removed.raised = "none"
                   /\ LinesOf(added.order_lines, n) # {}
                   /\ removed.order_lines = order_lines
                   /\ removed.overall_price = overall_price

RemovedTheLineJustAdded ==
    /\ call.op = "remove_order_line"
    /\ call.path = "removed"
    /\ call.product_number = 0
    /\ Len(order_lines) = 2
    /\ LinesOf(order_lines, 0) = {}

BothReturned == \A t \in Callers : threads[t].pc = "returned"

====
